---------------------------- MODULE Spec2Model ----------------------------
(***************************************************************************)
(* Model of verify_sync.py: two rclone listings (source and destination)   *)
(* are normalised into records, indexed by a comparison key, reconciled    *)
(* and aggregated per top-level directory; four report files are written.  *)
(*                                                                         *)
(* Representation.                                                         *)
(*   - A Python str is a sequence of one-character strings, so that        *)
(*     slicing, splitting, lower() and fnmatch act on characters.  The     *)
(*     date-time literal of a timestamp ("1970-01-01T00:16:40") is kept as *)
(*     one element: the code never cuts inside it.                         *)
(*   - Optional[T] is <<>> for None and <<v>> for a value v.               *)
(*   - A modtime (Python float seconds) is an integer count of             *)
(*     microseconds, the resolution datetime.timestamp() is computed from. *)
(*   - A dict is the sequence of its items in insertion order.             *)
(***************************************************************************)
EXTENDS Integers, Sequences, FiniteSets, TLC

None == <<>>
Some(v) == <<v>>

\* ------------------------------------------------------------------------
\* Configuration (module constants of verify_sync.py)
\* ------------------------------------------------------------------------
CASE_INSENSITIVE == TRUE
MODTIME_TOLERANCE_SECONDS == 120
MicrosPerSecond == 1000000

EXCLUDE_BASENAME_PATTERNS ==
    << <<".","D","S","_","S","t","o","r","e">>,
       <<"T","h","u","m","b","s",".","d","b">>,
       <<".","_","*">>,
       <<"~","$","*">>,
       <<"*",".","b","o","x","n","o","t","e">>,
       <<"*",".","t","m","p">> >>

\* ------------------------------------------------------------------------
\* str primitives
\* ------------------------------------------------------------------------
Contains(s, c) == \E i \in 1..Len(s) : s[i] = c

\* Index of the first occurrence of c in s (0 when there is none).
RECURSIVE FindFrom(_, _, _)
FindFrom(s, c, i) ==
    IF i > Len(s) THEN 0
    ELSE IF s[i] = c THEN i
    ELSE FindFrom(s, c, i + 1)

Find(s, c) == FindFrom(s, c, 1)

\* s[:n]
Take(s, n) == SubSeq(s, 1, IF n < Len(s) THEN n ELSE Len(s))

\* s[n:] with n counted from 0
Drop(s, n) == SubSeq(s, n + 1, Len(s))

\* s.split(c, 1) for a string that contains c: <<before, after>>
SplitOnce(s, c) == << SubSeq(s, 1, Find(s, c) - 1), Drop(s, Find(s, c)) >>

\* s.split(c)
RECURSIVE Split(_, _)
Split(s, c) ==
    IF Find(s, c) = 0 THEN << s >>
    ELSE << SubSeq(s, 1, Find(s, c) - 1) >> \o Split(Drop(s, Find(s, c)), c)

UpperCase == <<"A","B","C","D","E","F","G","H","I","J","K","L","M",
               "N","O","P","Q","R","S","T","U","V","W","X","Y","Z">>
LowerCase == <<"a","b","c","d","e","f","g","h","i","j","k","l","m",
               "n","o","p","q","r","s","t","u","v","w","x","y","z">>

LowerChar(c) ==
    IF Contains(UpperCase, c) THEN LowerCase[Find(UpperCase, c)] ELSE c

\* str.lower()
Lower(s) == [i \in 1..Len(s) |-> LowerChar(s[i])]

DigitChars == <<"0","1","2","3","4","5","6","7","8","9">>
IsDigit(c) == Contains(DigitChars, c)
DigitVal(c) == Find(DigitChars, c) - 1
AllDigits(s) == \A i \in 1..Len(s) : IsDigit(s[i])

\* Value of a string of decimal digits.
RECURSIVE DigitsVal(_)
DigitsVal(s) ==
    IF s = <<>> THEN 0
    ELSE 10 * DigitsVal(SubSeq(s, 1, Len(s) - 1)) + DigitVal(s[Len(s)])

\* int(s) for a plain decimal literal with an optional sign; None stands for
\* the ValueError that run_rclone_lsf turns into an absent size.
IntParse(s) ==
    IF s # <<>> /\ AllDigits(s) THEN Some(DigitsVal(s))
    ELSE IF Len(s) > 1 /\ s[1] = "-" /\ AllDigits(Drop(s, 1))
         THEN Some(0 - DigitsVal(Drop(s, 1)))
    ELSE IF Len(s) > 1 /\ s[1] = "+" /\ AllDigits(Drop(s, 1))
         THEN Some(DigitsVal(Drop(s, 1)))
    ELSE None

\* ------------------------------------------------------------------------
\* pathlib.PurePosixPath and fnmatch
\* ------------------------------------------------------------------------
RECURSIVE DropDots(_)
DropDots(segs) ==
    IF segs = <<>> THEN <<>>
    ELSE IF Head(segs) = <<>> \/ Head(segs) = <<".">> THEN DropDots(Tail(segs))
    ELSE << Head(segs) >> \o DropDots(Tail(segs))

\* PurePosixPath(p).parts: empty and "." segments vanish, a leading "/" is
\* the root part.
PathParts(p) ==
    (IF p # <<>> /\ p[1] = "/" THEN << <<"/">> >> ELSE <<>>)
        \o DropDots(Split(p, "/"))

RECURSIVE Join(_)
Join(segs) ==
    IF segs = <<>> THEN <<>>
    ELSE IF Len(segs) = 1 THEN segs[1]
    ELSE segs[1] \o <<"/">> \o Join(Tail(segs))

\* str(PurePosixPath(p))
PathStr(p) ==
    LET parts == PathParts(p) IN
    IF parts = <<>> THEN <<".">>
    ELSE IF parts[1] = <<"/">> THEN <<"/">> \o Join(Tail(parts))
    ELSE Join(parts)

\* PurePosixPath(p).name
PathName(p) ==
    LET parts == PathParts(p) IN
    IF parts = <<>> \/ parts[Len(parts)] = <<"/">> THEN <<>>
    ELSE parts[Len(parts)]

\* fnmatch.fnmatch(name, pat) on a POSIX host (normcase is the identity):
\* "*" matches any run of characters, "?" any one character, every other
\* pattern character itself.
RECURSIVE fnmatch(_, _)
fnmatch(name, pat) ==
    IF pat = <<>> THEN name = <<>>
    ELSE IF Head(pat) = "*"
         THEN \E k \in 0..Len(name) : fnmatch(Drop(name, k), Tail(pat))
    ELSE IF name = <<>> THEN FALSE
    ELSE IF Head(pat) = "?" THEN fnmatch(Tail(name), Tail(pat))
    ELSE Head(name) = Head(pat) /\ fnmatch(Tail(name), Tail(pat))

\* Variant: the patterns are matched against the whole path.
should_exclude_whole_path(path) ==
    \E i \in 1..Len(EXCLUDE_BASENAME_PATTERNS) :
        fnmatch(path, EXCLUDE_BASENAME_PATTERNS[i])

should_exclude(path) ==
    \E i \in 1..Len(EXCLUDE_BASENAME_PATTERNS) :
        fnmatch(PathName(path), EXCLUDE_BASENAME_PATTERNS[i])

top_level_of(path) ==
    LET parts == PathParts(path) IN
    IF parts # <<>> THEN parts[1] ELSE <<>>

\* ------------------------------------------------------------------------
\* Timestamps
\* ------------------------------------------------------------------------
\* The date-time literals that occur in the listings, with the seconds
\* between 1970-01-01T00:00:00 and the wall-clock time each one writes.
DateTimeLiterals ==
    { "1970-01-01T00:14:39", "1970-01-01T00:14:40", "1970-01-01T00:16:40",
      "1970-01-01T00:18:40" }

WallSeconds(lit) ==
    CASE lit = "1970-01-01T00:14:39" -> 879
      [] lit = "1970-01-01T00:14:40" -> 880
      [] lit = "1970-01-01T00:16:40" -> 1000
      [] lit = "1970-01-01T00:18:40" -> 1120

\* Length of the longest prefix of s made of digits.
RECURSIVE DigitRun(_)
DigitRun(s) ==
    IF s = <<>> \/ ~IsDigit(Head(s)) THEN 0 ELSE 1 + DigitRun(Tail(s))

\* A fraction of at most six digits as microseconds (".5" is 500000).
RECURSIVE PadMicros(_)
PadMicros(digits) ==
    IF Len(digits) >= 6 THEN DigitsVal(Take(digits, 6))
    ELSE PadMicros(digits \o <<"0">>)

\* The UTC offset, in seconds, that the end of an ISO string writes: tz is
\* None for no offset at all and Some(n) for "Z", "+hh", "+hhmm" and
\* "+hh:mm" (or "-"); ok is FALSE for anything else.
IsoOffset(z) ==
    LET sign == IF z[1] = "-" THEN 0 - 1 ELSE 1
        d    == Drop(z, 1)
        bad  == [ok |-> FALSE, tz |-> None]
        hm(h, m) ==
            IF DigitsVal(h) < 24 /\ DigitsVal(m) < 60
            THEN [ok |-> TRUE,
                  tz |-> Some(sign * (DigitsVal(h) * 3600 + DigitsVal(m) * 60))]
            ELSE bad
    IN  IF z = <<>> THEN [ok |-> TRUE, tz |-> None]
        ELSE IF z = <<"Z">> THEN [ok |-> TRUE, tz |-> Some(0)]
        ELSE IF z[1] # "+" /\ z[1] # "-" THEN bad
        ELSE IF Len(d) = 2 /\ AllDigits(d) THEN hm(d, <<"0">>)
        ELSE IF Len(d) = 4 /\ AllDigits(d) THEN hm(Take(d, 2), Drop(d, 2))
        ELSE IF Len(d) = 5 /\ d[3] = ":" /\ AllDigits(Take(d, 2))
                /\ AllDigits(Drop(d, 3))
             THEN hm(Take(d, 2), Drop(d, 3))
        ELSE bad

\* datetime.fromisoformat(s2) of CPython 3.11 and later, for a string that
\* starts with a date-time literal: an optional "." (or ",") fraction whose
\* digits beyond the sixth are dropped, then an optional offset.  The result
\* is None for the ValueError, else the wall-clock seconds, the microseconds
\* and the offset (None for a naive datetime).
fromisoformat(s2) ==
    IF s2 = <<>> \/ Head(s2) \notin DateTimeLiterals THEN None
    ELSE
      LET rest    == Tail(s2)
          hasFrac == rest # <<>> /\ (rest[1] = "." \/ rest[1] = ",")
          after   == IF hasFrac THEN Drop(rest, 1) ELSE rest
          n       == IF hasFrac THEN DigitRun(after) ELSE 0
          zone    == Drop(after, n)
      IN  IF hasFrac /\ n = 0 /\ zone = <<>> THEN None
          ELSE IF ~IsoOffset(zone).ok THEN None
          ELSE Some([wall   |-> WallSeconds(Head(s2)),
                     micros |-> IF n = 0 THEN 0 ELSE PadMicros(Take(after, n)),
                     tz     |-> IsoOffset(zone).tz])

\* s.replace("Z", "+00:00")
RECURSIVE ReplaceZ(_)
ReplaceZ(s) ==
    IF s = <<>> THEN <<>>
    ELSE (IF Head(s) = "Z" THEN <<"+","0","0",":","0","0">> ELSE << Head(s) >>)
            \o ReplaceZ(Tail(s))

\* The string handed to fromisoformat (lines 90-101).
IsoInput(s) ==
    IF Contains(s, ".")
    THEN LET head == SplitOnce(s, ".")[1]
             tail == SplitOnce(s, ".")[2]
         IN  IF s[Len(s)] = "Z"
             THEN head \o <<".">> \o Take(Take(tail, Len(tail) - 1), 6)
                       \o <<"+","0","0",":","0","0">>
             ELSE IF Contains(tail, "+")
             THEN head \o <<".">> \o Take(SplitOnce(tail, "+")[1], 6)
                       \o <<"+">> \o SplitOnce(tail, "+")[2]
             ELSE head \o <<".">> \o Take(tail, 6)
    ELSE ReplaceZ(s)

\* parse_rfc3339_modtime: Optional epoch, in microseconds.
parse_rfc3339_modtime(s) ==
    IF s = <<>> \/ s = <<"-">> THEN None
    ELSE LET dt == fromisoformat(IsoInput(s)) IN
         IF dt = None THEN None
         ELSE LET off == IF dt[1].tz = None THEN 0 ELSE dt[1].tz[1] IN
              Some((dt[1].wall - off) * MicrosPerSecond + dt[1].micros)

\* ------------------------------------------------------------------------
\* Listing normaliser
\* ------------------------------------------------------------------------
\* What "rclone lsf -R --files-only --format pst <remote>/<sub>" prints for a
\* remote holding `files` (lines whose first field is the path from the
\* remote's root): the files below <sub>, each path relative to <sub>.  An
\* empty sub lists the whole remote.
RECURSIVE Listing(_, _)
Listing(files, sub) ==
    IF files = <<>> THEN <<>>
    ELSE LET line  == Head(files)
             parts == PathParts(line[1])
         IN  IF sub = <<>> THEN << line >> \o Listing(Tail(files), sub)
             ELSE IF Len(parts) > 1 /\ parts[1] = sub
             THEN << [line EXCEPT ![1] = Join(Tail(parts))] >>
                      \o Listing(Tail(files), sub)
             ELSE Listing(Tail(files), sub)

\* run_rclone_lsf, lines 129-145: the records of the listing's lines.  A
\* line is the sequence of its tab-separated fields.
RECURSIVE run_rclone_lsf(_)
run_rclone_lsf(lines) ==
    IF lines = <<>> THEN <<>>
    ELSE LET parts == Head(lines)
             rest  == run_rclone_lsf(Tail(lines))
         IN  IF Len(parts) # 3 THEN rest
             ELSE IF should_exclude(parts[1]) THEN rest
             ELSE << [path    |-> PathStr(parts[1]),
                      modtime |-> parse_rfc3339_modtime(parts[3]),
                      size    |-> IF parts[2] # <<>> /\ parts[2] # <<"-">>
                                  THEN IntParse(parts[2]) ELSE None] >>
                  \o rest

\* ------------------------------------------------------------------------
\* Index builder
\* ------------------------------------------------------------------------
ComparisonKey(rel) == IF CASE_INSENSITIVE THEN Lower(rel) ELSE rel

\* dict.get(key): None, or Some(item)
DictGet(idx, key) ==
    IF \E i \in 1..Len(idx) : idx[i].key = key
    THEN Some(idx[CHOOSE i \in 1..Len(idx) : idx[i].key = key])
    ELSE None

\* Variant: an existing key keeps its first item.
DictSetKeepFirst(idx, item) ==
    IF \E i \in 1..Len(idx) : idx[i].key = item.key
    THEN idx
    ELSE Append(idx, item)

\* idx[key] = item: an existing key keeps its place and takes the new item.
DictSet(idx, item) ==
    IF \E i \in 1..Len(idx) : idx[i].key = item.key
    THEN [i \in 1..Len(idx) |-> IF idx[i].key = item.key THEN item ELSE idx[i]]
    ELSE Append(idx, item)

RECURSIVE build_index_from(_, _)
build_index_from(idx, entries) ==
    IF entries = <<>> THEN idx
    ELSE build_index_from(
            DictSet(idx, [key     |-> ComparisonKey(Head(entries).path),
                          path    |-> Head(entries).path,
                          modtime |-> Head(entries).modtime,
                          size    |-> Head(entries).size]),
            Tail(entries))

build_index(entries) == build_index_from(<<>>, entries)

\* ------------------------------------------------------------------------
\* Reconciler
\* ------------------------------------------------------------------------
Abs(n) == IF n < 0 THEN 0 - n ELSE n

Tolerance == MODTIME_TOLERANCE_SECONDS * MicrosPerSecond

\* Variant: the tolerance itself is already too far.
PairCheckStrict(src, dst) ==
    LET absent == src.modtime = None \/ dst.modtime = None
        diff   == IF absent THEN None
                  ELSE Some(Abs(dst.modtime[1] - src.modtime[1]))
    IN  [size_equal  |-> src.size = dst.size,
         mtime_diff  |-> diff,
         within_tol  |-> IF absent THEN FALSE ELSE diff[1] < Tolerance]

\* Variant: an absent modtime counts as no difference.
PairCheckAbsentZero(src, dst) ==
    LET absent == src.modtime = None \/ dst.modtime = None
        diff   == IF absent THEN Some(0)
                  ELSE Some(Abs(dst.modtime[1] - src.modtime[1]))
    IN  [size_equal  |-> src.size = dst.size,
         mtime_diff  |-> diff,
         within_tol  |-> diff[1] <= Tolerance]

\* Lines 177-183 for a source item and the destination item of the same key.
PairCheck(src, dst) ==
    LET absent == src.modtime = None \/ dst.modtime = None
        diff   == IF absent THEN None
                  ELSE Some(Abs(dst.modtime[1] - src.modtime[1]))
    IN  [size_equal  |-> src.size = dst.size,
         mtime_diff  |-> diff,
         within_tol  |-> IF absent THEN FALSE ELSE diff[1] <= Tolerance]

MissingEntry(src) ==
    [path |-> src.path, size |-> src.size, modtime |-> src.modtime]

MismatchEntry(src, dst) ==
    [path                 |-> src.path,
     src_size             |-> src.size,
     dst_size             |-> dst.size,
     size_equal           |-> PairCheck(src, dst).size_equal,
     src_modtime          |-> src.modtime,
     dst_modtime          |-> dst.modtime,
     modtime_diff_seconds |-> PairCheck(src, dst).mtime_diff,
     within_tolerance     |-> PairCheck(src, dst).within_tol]

\* Variant: every pair found on the destination is counted as matched.
CompareStepCountsAll(acc, src, dst_idx) ==
    LET dst == DictGet(dst_idx, src.key) IN
    IF dst = None
    THEN [acc EXCEPT !.missing_on_dst = Append(@, MissingEntry(src))]
    ELSE IF PairCheck(src, dst[1]).size_equal /\ PairCheck(src, dst[1]).within_tol
    THEN [acc EXCEPT !.matched_count = @ + 1]
    ELSE [acc EXCEPT !.matched_count = @ + 1,
                     !.mismatches = Append(@, MismatchEntry(src, dst[1]))]

\* One turn of the loop of compare (lines 167-197) on the results so far.
CompareStep(acc, src, dst_idx) ==
    LET dst == DictGet(dst_idx, src.key) IN
    IF dst = None
    THEN [acc EXCEPT !.missing_on_dst = Append(@, MissingEntry(src))]
    ELSE IF PairCheck(src, dst[1]).size_equal /\ PairCheck(src, dst[1]).within_tol
    THEN [acc EXCEPT !.matched_count = @ + 1]
    ELSE [acc EXCEPT !.mismatches = Append(@, MismatchEntry(src, dst[1]))]

RECURSIVE compare_from(_, _, _)
compare_from(acc, items, dst_idx) ==
    IF items = <<>> THEN acc
    ELSE compare_from(CompareStep(acc, Head(items), dst_idx), Tail(items), dst_idx)

compare(src_idx, dst_idx) ==
    compare_from([missing_on_dst |-> <<>>, mismatches |-> <<>>, matched_count |-> 0],
                 src_idx, dst_idx)

\* ------------------------------------------------------------------------
\* State
\* ------------------------------------------------------------------------
VARIABLES
    DIRS,             \* the allow-list; None and [] are both <<>>
    src_remote,       \* the files of dropbox:, as lsf lines from its root
    dst_remote,       \* the files of box:/SAOA
    pc,               \* where main() stands
    dir_i,            \* position of the loop "for top in DIRS"
    src_entries, dst_entries,
    src_idx, dst_idx,
    missing_on_dst, mismatches,
    counts, total_size_bytes,
    per_top,
    written,          \* report files written by this run
    status,           \* the verdict put in status.json
    exit_status       \* None while running, else the process's exit status

vars == << DIRS, src_remote, dst_remote, pc, dir_i, src_entries, dst_entries,
           src_idx, dst_idx, missing_on_dst, mismatches, counts,
           total_size_bytes, per_top, written, status, exit_status >>

\* ------------------------------------------------------------------------
\* Aggregator
\* ------------------------------------------------------------------------
\* tops = {}
NoTops == [t \in {} |-> 0]

\* Lines 227-234: totals per top-level segment of the source items.
RECURSIVE InitialTotals(_, _, _)
InitialTotals(tops, items, dirs) ==
    IF items = <<>> THEN tops
    ELSE LET v    == Head(items)
             top  == top_level_of(v.path)
             old  == IF top \in DOMAIN tops THEN tops[top]
                     ELSE [total_files |-> 0, missing |-> 0,
                           mismatches |-> 0, size_bytes |-> 0]
             new  == [old EXCEPT !.total_files = @ + 1,
                                 !.size_bytes  = IF v.size # None
                                                 THEN @ + v.size[1] ELSE @]
         IN  IF dirs # <<>> /\ ~Contains(dirs, top)
             THEN InitialTotals(tops, Tail(items), dirs)
             ELSE InitialTotals(
                    [t \in DOMAIN tops \cup {top} |->
                        IF t = top THEN new ELSE tops[t]],
                    Tail(items), dirs)

\* Lines 237-240: one more missing file for the group of each entry.
RECURSIVE TallyMissing(_, _)
TallyMissing(tops, entries) ==
    IF entries = <<>> THEN tops
    ELSE LET top == top_level_of(Head(entries).path) IN
         TallyMissing(IF top \in DOMAIN tops
                      THEN [tops EXCEPT ![top].missing = @ + 1] ELSE tops,
                      Tail(entries))

\* Variant: a mismatch is added to the group's missing files.
RECURSIVE TallyMismatchesAsMissing(_, _)
TallyMismatchesAsMissing(tops, entries) ==
    IF entries = <<>> THEN tops
    ELSE LET top == top_level_of(Head(entries).path) IN
         TallyMismatchesAsMissing(
            IF top \in DOMAIN tops
            THEN [tops EXCEPT ![top].missing = @ + 1] ELSE tops,
            Tail(entries))

\* Lines 242-245: the same for the mismatches.
RECURSIVE TallyMismatches(_, _)
TallyMismatches(tops, entries) ==
    IF entries = <<>> THEN tops
    ELSE LET top == top_level_of(Head(entries).path) IN
         TallyMismatches(IF top \in DOMAIN tops
                         THEN [tops EXCEPT ![top].mismatches = @ + 1] ELSE tops,
                         Tail(entries))

\* Variant: matched leaves the mismatches in.
SummariesLessMissing(tops) ==
    [t \in DOMAIN tops |->
        [total_files |-> tops[t].total_files,
         missing     |-> tops[t].missing,
         mismatches  |-> tops[t].mismatches,
         size_bytes  |-> tops[t].size_bytes,
         matched     |-> tops[t].total_files - tops[t].missing,
         all_synced  |-> tops[t].missing = 0 /\ tops[t].mismatches = 0]]

\* Lines 248-252 (size_gb, a rounding of size_bytes for display, is left to
\* the reports).
Summaries(tops) ==
    [t \in DOMAIN tops |->
        [total_files |-> tops[t].total_files,
         missing     |-> tops[t].missing,
         mismatches  |-> tops[t].mismatches,
         size_bytes  |-> tops[t].size_bytes,
         matched     |-> tops[t].total_files - tops[t].missing
                            - tops[t].mismatches,
         all_synced  |-> tops[t].missing = 0 /\ tops[t].mismatches = 0]]

aggregate_by_top_level(sidx, missing, mism, dirs) ==
    Summaries(TallyMismatches(TallyMissing(
        InitialTotals(NoTops, sidx, dirs), missing), mism))

\* sum(v["size"] for v in src_idx.values() if isinstance(v.get("size"), int))
RECURSIVE SumSizes(_)
SumSizes(items) ==
    IF items = <<>> THEN 0
    ELSE (IF Head(items).size # None THEN Head(items).size[1] ELSE 0)
            + SumSizes(Tail(items))

\* ------------------------------------------------------------------------
\* main()
\* ------------------------------------------------------------------------
ReportFiles == {"report.json", "report.csv", "report.html", "status.json"}

\* Lines 421-424: the source listing of the directory the loop stands at.
ListSrcDir ==
    /\ pc = "list_src" /\ DIRS # <<>>
    /\ src_entries' = src_entries
                        \o run_rclone_lsf(Listing(src_remote, DIRS[dir_i]))
    /\ pc' = "list_dst"
    /\ UNCHANGED << DIRS, src_remote, dst_remote, dir_i, dst_entries, src_idx,
                    dst_idx, missing_on_dst, mismatches, counts,
                    total_size_bytes, per_top, written, status, exit_status >>

\* Lines 421-425: its destination listing, then the next directory.
ListDstDir ==
    /\ pc = "list_dst" /\ DIRS # <<>>
    /\ dst_entries' = dst_entries
                        \o run_rclone_lsf(Listing(dst_remote, DIRS[dir_i]))
    /\ dir_i' = IF dir_i < Len(DIRS) THEN dir_i + 1 ELSE dir_i
    /\ pc' = IF dir_i < Len(DIRS) THEN "list_src" ELSE "index"
    /\ UNCHANGED << DIRS, src_remote, dst_remote, src_entries, src_idx,
                    dst_idx, missing_on_dst, mismatches, counts,
                    total_size_bytes, per_top, written, status, exit_status >>

\* Line 427: the whole source.
ListSrcAll ==
    /\ pc = "list_src" /\ DIRS = <<>>
    /\ src_entries' = run_rclone_lsf(Listing(src_remote, <<>>))
    /\ pc' = "list_dst"
    /\ UNCHANGED << DIRS, src_remote, dst_remote, dir_i, dst_entries, src_idx,
                    dst_idx, missing_on_dst, mismatches, counts,
                    total_size_bytes, per_top, written, status, exit_status >>

\* Line 428: the whole destination.
ListDstAll ==
    /\ pc = "list_dst" /\ DIRS = <<>>
    /\ dst_entries' = run_rclone_lsf(Listing(dst_remote, <<>>))
    /\ pc' = "index"
    /\ UNCHANGED << DIRS, src_remote, dst_remote, dir_i, src_entries, src_idx,
                    dst_idx, missing_on_dst, mismatches, counts,
                    total_size_bytes, per_top, written, status, exit_status >>

\* Variant: the listing that found no rclone is taken as empty and the run
\* goes on, keeping 2 for its exit status.
RcloneNotFoundGoesOn ==
    /\ pc \in {"list_src", "list_dst"}
    /\ pc' = IF pc = "list_src" THEN "list_dst"
             ELSE IF DIRS # <<>> /\ dir_i < Len(DIRS) THEN "list_src"
             ELSE "index"
    /\ exit_status' = Some(2)
    /\ UNCHANGED << DIRS, src_remote, dst_remote, dir_i, src_entries,
                    dst_entries, src_idx, dst_idx, missing_on_dst, mismatches,
                    counts, total_size_bytes, per_top, written, status >>

\* Lines 123-127: Popen raises FileNotFoundError at a listing; sys.exit(2).
RcloneNotFound ==
    /\ pc \in {"list_src", "list_dst"}
    /\ pc' = "exited"
    /\ exit_status' = Some(2)
    /\ UNCHANGED << DIRS, src_remote, dst_remote, dir_i, src_entries,
                    dst_entries, src_idx, dst_idx, missing_on_dst, mismatches,
                    counts, total_size_bytes, per_top, written, status >>

\* Lines 431-432.
BuildIndexes ==
    /\ pc = "index"
    /\ src_idx' = build_index(src_entries)
    /\ dst_idx' = build_index(dst_entries)
    /\ pc' = "compare"
    /\ UNCHANGED << DIRS, src_remote, dst_remote, dir_i, src_entries,
                    dst_entries, missing_on_dst, mismatches, counts,
                    total_size_bytes, per_top, written, status, exit_status >>

\* Lines 435-447.
Compare ==
    /\ pc = "compare"
    /\ LET r == compare(src_idx, dst_idx) IN
        /\ missing_on_dst' = r.missing_on_dst
        /\ mismatches' = r.mismatches
        /\ counts' = [total_src_files |-> Len(src_idx),
                      matched         |-> r.matched_count,
                      missing_on_dst  |-> Len(r.missing_on_dst),
                      mismatches      |-> Len(r.mismatches)]
    /\ total_size_bytes' = SumSizes(src_idx)
    /\ pc' = "aggregate"
    /\ UNCHANGED << DIRS, src_remote, dst_remote, dir_i, src_entries,
                    dst_entries, src_idx, dst_idx, per_top, written, status,
                    exit_status >>

\* Line 450.
Aggregate ==
    /\ pc = "aggregate"
    /\ per_top' = aggregate_by_top_level(src_idx, missing_on_dst, mismatches, DIRS)
    /\ pc' = "write_json"
    /\ UNCHANGED << DIRS, src_remote, dst_remote, dir_i, src_entries,
                    dst_entries, src_idx, dst_idx, missing_on_dst, mismatches,
                    counts, total_size_bytes, written, status, exit_status >>

\* Lines 455-473.
WriteJson ==
    /\ pc = "write_json"
    /\ written' = written \cup {"report.json"}
    /\ pc' = "write_csv"
    /\ UNCHANGED << DIRS, src_remote, dst_remote, dir_i, src_entries,
                    dst_entries, src_idx, dst_idx, missing_on_dst, mismatches,
                    counts, total_size_bytes, per_top, status, exit_status >>

\* Line 476.
WriteCsv ==
    /\ pc = "write_csv"
    /\ written' = written \cup {"report.csv"}
    /\ pc' = "write_html"
    /\ UNCHANGED << DIRS, src_remote, dst_remote, dir_i, src_entries,
                    dst_entries, src_idx, dst_idx, missing_on_dst, mismatches,
                    counts, total_size_bytes, per_top, status, exit_status >>

\* Lines 477-486.
WriteHtml ==
    /\ pc = "write_html"
    /\ written' = written \cup {"report.html"}
    /\ pc' = "write_status"
    /\ UNCHANGED << DIRS, src_remote, dst_remote, dir_i, src_entries,
                    dst_entries, src_idx, dst_idx, missing_on_dst, mismatches,
                    counts, total_size_bytes, per_top, status, exit_status >>

\* Lines 488-498, and the return of main().
WriteStatus ==
    /\ pc = "write_status"
    /\ status' = IF counts.missing_on_dst = 0 /\ counts.mismatches = 0
                 THEN "pass" ELSE "fail"
    /\ written' = written \cup {"status.json"}
    /\ pc' = "done"
    /\ exit_status' = Some(0)
    /\ UNCHANGED << DIRS, src_remote, dst_remote, dir_i, src_entries,
                    dst_entries, src_idx, dst_idx, missing_on_dst, mismatches,
                    counts, total_size_bytes, per_top >>

Next ==
    \/ ListSrcDir \/ ListDstDir \/ ListSrcAll \/ ListDstAll \/ RcloneNotFound
    \/ BuildIndexes \/ Compare \/ Aggregate
    \/ WriteJson \/ WriteCsv \/ WriteHtml \/ WriteStatus

\* ------------------------------------------------------------------------
\* The runs that are checked
\* ------------------------------------------------------------------------
MaxSrcFiles == 3       \* lines of the source listing
MaxDstFiles == 2       \* lines of the destination listing
MaxExclFiles == 2      \* lines of a listing that holds junk files
MaxFracDigits == 7     \* digits of a timestamp's fraction

\* Sequences of at most n elements of S.
SeqsUpTo(S, n) == UNION { [1..k -> S] : k \in 0..n }

DirA == <<"A">>
DirB == <<"B">>
DirsChoices == { <<>>, << DirB >> }

T879_999999  == <<"1970-01-01T00:14:39",".","9","9","9","9","9","9","Z">>
T880         == <<"1970-01-01T00:14:40","Z">>
T1000        == <<"1970-01-01T00:16:40","Z">>
T1120        == <<"1970-01-01T00:18:40","Z">>
T1120_000001 == <<"1970-01-01T00:18:40",".","0","0","0","0","0","1","Z">>
Unknown      == <<"-">>

Path_A_f   == <<"A","/","f">>
Path_a_f   == <<"a","/","f">>
Path_B_g   == <<"B","/","g">>
Path_B_B_g == <<"B","/","B","/","g">>

Line(p, s, t) == << p, s, t >>

\* The state main() starts in: nothing listed, nothing written.
Started ==
    /\ DIRS \in DirsChoices
    /\ pc = "list_src"
    /\ dir_i = 1
    /\ src_entries = <<>> /\ dst_entries = <<>>
    /\ src_idx = <<>> /\ dst_idx = <<>>
    /\ missing_on_dst = <<>> /\ mismatches = <<>>
    /\ counts = [total_src_files |-> 0, matched |-> 0,
                 missing_on_dst |-> 0, mismatches |-> 0]
    /\ total_size_bytes = 0
    /\ per_top = NoTops
    /\ written = {}
    /\ status = ""
    /\ exit_status = None

\* Spec: trees whose paths collide under case folding, differ in size, lack
\* a size, or lie below B/B (a top-level B inside the listed B).
SrcLines ==
    { Line(Path_A_f, <<"5">>, T1000), Line(Path_a_f, <<"7">>, T1000),
      Line(Path_B_g, <<"-">>, T1000), Line(Path_B_B_g, <<"3">>, T1000) }

DstLines ==
    { Line(Path_A_f, <<"5">>, T1000), Line(Path_B_g, <<"6">>, T1000),
      Line(Path_B_B_g, <<"3">>, T1000) }

Init ==
    /\ src_remote \in SeqsUpTo(SrcLines, MaxSrcFiles)
    /\ dst_remote \in SeqsUpTo(DstLines, MaxDstFiles)
    /\ Started

Spec == Init /\ [][Next]_vars

\* SpecTol: pairs of equal size (5 and 5, unknown and unknown) whose
\* modtimes are equal, differ by the tolerance or by a microsecond more, or
\* are unknown.
TolSrcLines ==
    { Line(Path_B_g, <<"5">>, T1000), Line(Path_B_g, <<"5">>, Unknown),
      Line(Path_A_f, <<"-">>, T1000) }

TolDstLines ==
    { Line(Path_B_g, <<"5">>, T880), Line(Path_B_g, <<"5">>, T879_999999),
      Line(Path_B_g, <<"5">>, T1000), Line(Path_B_g, <<"5">>, Unknown),
      Line(Path_A_f, <<"-">>, T1120), Line(Path_A_f, <<"-">>, T1120_000001) }

InitTol ==
    /\ src_remote \in SeqsUpTo(TolSrcLines, MaxSrcFiles)
    /\ dst_remote \in SeqsUpTo(TolDstLines, MaxDstFiles)
    /\ Started

SpecTol == InitTol /\ [][Next]_vars

\* SpecExcl: listings that hold junk files at several depths, a file that
\* is kept, and a line with a field too few.
Name_DS_Store == <<".","D","S","_","S","t","o","r","e">>
Name_Thumbs   == <<"T","h","u","m","b","s",".","d","b">>
Name_foo      == <<".","_","f","o","o">>
Name_doc      == <<"~","$","d","o","c",".","d","o","c","x">>
Name_boxnote  == <<"n","o","t","e","s",".","b","o","x","n","o","t","e">>
Name_tmp      == <<"c","a","c","h","e",".","t","m","p">>

ExclSrcLines ==
    { Line(Name_DS_Store, <<"5">>, T1000),
      Line(DirA \o <<"/">> \o Name_Thumbs, <<"5">>, T1000),
      Line(DirB \o <<"/">> \o Name_foo, <<"5">>, T1000),
      Line(Name_doc, <<"5">>, T1000),
      Line(DirB \o <<"/">> \o DirB \o <<"/">> \o Name_boxnote, <<"5">>, T1000),
      Line(DirB \o <<"/">> \o Name_tmp, <<"5">>, T1000),
      Line(Path_B_g, <<"5">>, T1000),
      << Path_A_f, <<"5">> >> }

ExclDstLines ==
    { Line(DirB \o <<"/">> \o Name_tmp, <<"5">>, T1000),
      Line(Path_B_g, <<"5">>, T1000) }

InitExcl ==
    /\ src_remote \in SeqsUpTo(ExclSrcLines, MaxExclFiles)
    /\ dst_remote \in SeqsUpTo(ExclDstLines, MaxExclFiles)
    /\ Started

SpecExcl == InitExcl /\ [][Next]_vars

\* SpecParse: one source file whose timestamp is well formed: a date-time
\* literal, a fraction of 0..MaxFracDigits digits, and no offset, "Z", or an
\* offset east or west of UTC (of minutes: TLC's integers have 32 bits, which
\* hold the microseconds of some 35 minutes).
FracDigits == <<"1","2","3","4","5","6","7","8","9">>

Zones == { <<>>, <<"Z">>, <<"+","0","0",":","1","0">>,
           <<"-","0","0",":","0","5">> }

WellFormed ==
    [lit : {"1970-01-01T00:16:40"}, nfrac : 0..MaxFracDigits, zone : Zones]

\* The text of a well-formed timestamp.
Render(g) ==
    << g.lit >>
        \o (IF g.nfrac = 0 THEN <<>> ELSE <<".">> \o Take(FracDigits, g.nfrac))
        \o g.zone

\* The instant it denotes, in microseconds since the epoch, its fraction
\* truncated to microseconds.
ZoneSeconds(zone) ==
    IF zone = <<"+","0","0",":","1","0">> THEN 600
    ELSE IF zone = <<"-","0","0",":","0","5">> THEN 0 - 300
    ELSE 0

Instant(g) ==
    (WallSeconds(g.lit) - ZoneSeconds(g.zone)) * MicrosPerSecond
        + (IF g.nfrac = 0 THEN 0 ELSE PadMicros(Take(FracDigits, g.nfrac)))

InitParse ==
    /\ src_remote \in { << Line(Path_B_g, <<"5">>, Render(g)) >> : g \in WellFormed }
    /\ dst_remote \in { <<>>, << Line(Path_B_g, <<"5">>, T1000) >> }
    /\ Started

SpecParse == InitParse /\ [][Next]_vars

\* ------------------------------------------------------------------------
\* Properties
\* ------------------------------------------------------------------------
Indexed    == pc \in {"compare", "aggregate", "write_json", "write_csv",
                      "write_html", "write_status", "done"}
Compared   == Indexed /\ pc # "compare"
Aggregated == Compared /\ pc # "aggregate"

\* The equality rule of the reconciler, stated on two records.
SameFile(s, d) ==
    /\ s.size = d.size
    /\ s.modtime # None /\ d.modtime # None
    /\ d.modtime[1] - s.modtime[1] <= MODTIME_TOLERANCE_SECONDS * MicrosPerSecond
    /\ s.modtime[1] - d.modtime[1] <= MODTIME_TOLERANCE_SECONDS * MicrosPerSecond

OnDst(i)      == \E j \in 1..Len(dst_idx) : dst_idx[j].key = src_idx[i].key
IsMatched(i)  == \E j \in 1..Len(dst_idx) :
                    dst_idx[j].key = src_idx[i].key /\ SameFile(src_idx[i], dst_idx[j])
InMissing(i)  == \E j \in 1..Len(missing_on_dst) :
                    missing_on_dst[j].path = src_idx[i].path
InMismatch(i) == \E j \in 1..Len(mismatches) :
                    mismatches[j].path = src_idx[i].path

\* C1: compare() puts every source key in exactly one of matched, missing on
\* the destination and mismatch, a key being missing exactly when the
\* destination index lacks it, so that
\* matched_count + len(missing_on_dst) + len(mismatches) = len(src_idx).
C1_Partition ==
    Compared =>
        /\ counts.matched + Len(missing_on_dst) + Len(mismatches) = Len(src_idx)
        /\ \A i \in 1..Len(src_idx) :
              /\ InMissing(i) <=> ~OnDst(i)
              /\ InMismatch(i) <=> (OnDst(i) /\ ~IsMatched(i))
        /\ counts.matched = Cardinality({i \in 1..Len(src_idx) : IsMatched(i)})
        /\ Len(missing_on_dst) = Cardinality({i \in 1..Len(src_idx) : InMissing(i)})
        /\ Len(mismatches) = Cardinality({i \in 1..Len(src_idx) : InMismatch(i)})

\* A run whose three source files fall one in each class.
C1_Witness ==
    /\ Compared
    /\ counts.matched = 1 /\ Len(missing_on_dst) = 1 /\ Len(mismatches) = 1

Delta(s, d) ==
    IF d.modtime[1] >= s.modtime[1] THEN d.modtime[1] - s.modtime[1]
    ELSE s.modtime[1] - d.modtime[1]

Paired(i, j) == src_idx[i].key = dst_idx[j].key

BothTimed(i, j) == src_idx[i].modtime # None /\ dst_idx[j].modtime # None

\* C2: a pair of equal sizes with both modtimes present is matched (in
\* neither list, and counted) when its modtime difference is the tolerance
\* or less, and is a MismatchEntry with size_equal = true and
\* within_tolerance = false when the difference is one microsecond more,
\* whichever side is the later.
C2_ToleranceBoundary ==
    Compared =>
        /\ \A i \in 1..Len(src_idx), j \in 1..Len(dst_idx) :
            (Paired(i, j) /\ BothTimed(i, j) /\ src_idx[i].size = dst_idx[j].size) =>
              /\ Delta(src_idx[i], dst_idx[j]) <= MODTIME_TOLERANCE_SECONDS * MicrosPerSecond
                    => ~InMismatch(i) /\ ~InMissing(i)
              /\ Delta(src_idx[i], dst_idx[j]) = MODTIME_TOLERANCE_SECONDS * MicrosPerSecond + 1
                    => \E k \in 1..Len(mismatches) :
                          /\ mismatches[k].path = src_idx[i].path
                          /\ mismatches[k].size_equal = TRUE
                          /\ mismatches[k].within_tolerance = FALSE
        /\ counts.matched =
              Cardinality({i \in 1..Len(src_idx) :
                  \E j \in 1..Len(dst_idx) :
                      /\ Paired(i, j) /\ BothTimed(i, j)
                      /\ src_idx[i].size = dst_idx[j].size
                      /\ Delta(src_idx[i], dst_idx[j])
                            <= MODTIME_TOLERANCE_SECONDS * MicrosPerSecond})

\* One pair exactly at the tolerance with the destination later, matched;
\* another a microsecond beyond it with the source later, a mismatch.
C2_Witness ==
    /\ Compared
    /\ \E i \in 1..Len(src_idx), j \in 1..Len(dst_idx) :
          /\ Paired(i, j) /\ BothTimed(i, j)
          /\ dst_idx[j].modtime[1] - src_idx[i].modtime[1]
                = MODTIME_TOLERANCE_SECONDS * MicrosPerSecond
          /\ ~InMismatch(i)
    /\ \E i \in 1..Len(src_idx), j \in 1..Len(dst_idx) :
          /\ Paired(i, j) /\ BothTimed(i, j)
          /\ src_idx[i].modtime[1] - dst_idx[j].modtime[1]
                = MODTIME_TOLERANCE_SECONDS * MicrosPerSecond + 1
          /\ InMismatch(i)
    /\ counts.matched = 1

\* C3: a pair whose modtime is absent on either side is never matched, equal
\* sizes or not: it is a MismatchEntry with within_tolerance = false and no
\* modtime difference.
C3_AbsentModtime ==
    Compared =>
        /\ \A i \in 1..Len(src_idx), j \in 1..Len(dst_idx) :
            (Paired(i, j) /\ ~BothTimed(i, j)) =>
                \E k \in 1..Len(mismatches) :
                    /\ mismatches[k].path = src_idx[i].path
                    /\ mismatches[k].within_tolerance = FALSE
                    /\ mismatches[k].modtime_diff_seconds = None
        /\ counts.matched <=
              Cardinality({i \in 1..Len(src_idx) :
                  \E j \in 1..Len(dst_idx) : Paired(i, j) /\ BothTimed(i, j)})

\* A pair of equal sizes whose modtime only the destination lacks.
C3_Witness ==
    /\ Compared
    /\ \E i \in 1..Len(src_idx), j \in 1..Len(dst_idx) :
          /\ Paired(i, j)
          /\ src_idx[i].size = dst_idx[j].size
          /\ src_idx[i].modtime # None /\ dst_idx[j].modtime = None
          /\ InMismatch(i)

KeyOf(path) == IF CASE_INSENSITIVE THEN Lower(path) ELSE path

\* idx holds one item for each comparison key of `entries`, the item of the
\* last record of that key, and has fewer items than there are records
\* exactly when two records share a key.
IndexOf(entries, idx) ==
    LET k == [j \in 1..Len(entries) |-> KeyOf(entries[j].path)]
        last(a) == CHOOSE j \in 1..Len(entries) :
                      /\ k[j] = idx[a].key
                      /\ \A m \in (j + 1)..Len(entries) : k[m] # idx[a].key
    IN  /\ Len(idx) <= Len(entries)
        /\ (Len(idx) = Len(entries)) <=>
              (\A a, b \in 1..Len(entries) : a # b => k[a] # k[b])
        /\ \A a, b \in 1..Len(idx) : a # b => idx[a].key # idx[b].key
        /\ \A j \in 1..Len(entries) : \E a \in 1..Len(idx) : idx[a].key = k[j]
        /\ \A a \in 1..Len(idx) :
              /\ \E j \in 1..Len(entries) : k[j] = idx[a].key
              /\ idx[a].path = entries[last(a)].path
              /\ idx[a].size = entries[last(a)].size
              /\ idx[a].modtime = entries[last(a)].modtime

\* C5: build_index() returns at most as many keys as there are records,
\* exactly as many only when no two paths fold to the same key, and under
\* each key the last record of that key in input order (stated of both
\* indexes in the state build_index() returns them in).
C5_IndexLastWins ==
    pc = "compare" =>
        IndexOf(src_entries, src_idx) /\ IndexOf(dst_entries, dst_idx)

\* A/f, then a/f: one key, which holds a/f.
C5_Witness ==
    /\ pc = "compare"
    /\ Len(src_entries) = 2 /\ Len(src_idx) = 1
    /\ src_entries[1].path = Path_A_f
    /\ src_entries[2].path = Path_a_f
    /\ src_idx[1].path = Path_a_f

\* C6: a listing at which rclone is not found ends the run at once with
\* exit status 2, and that run writes none of its four report files.
C6_NotFoundAborts ==
    /\ exit_status = Some(2) => (pc = "exited" /\ written = {})
    /\ pc = "exited" => (exit_status = Some(2) /\ ~ENABLED Next)
    /\ written # {} => (exit_status # Some(2) /\ pc # "exited")

\* rclone vanishes at a later listing of a run with an allow-list.
C6_Witness ==
    /\ pc = "exited"
    /\ exit_status = Some(2)
    /\ DIRS # <<>>
    /\ src_entries # <<>>

\* The text after the last "/" of a path.
Basename(p) ==
    IF \E i \in 1..Len(p) : p[i] = "/"
    THEN SubSeq(p, 1 + (CHOOSE i \in 1..Len(p) :
                            p[i] = "/" /\ \A m \in (i + 1)..Len(p) : p[m] # "/"),
                Len(p))
    ELSE p

StartsWith(s, pre) == Len(s) >= Len(pre) /\ SubSeq(s, 1, Len(pre)) = pre
EndsWith(s, suf) ==
    Len(s) >= Len(suf) /\ SubSeq(s, Len(s) - Len(suf) + 1, Len(s)) = suf

\* The configured exclusions, read as names, prefixes and suffixes.
JunkName(n) ==
    \/ n = Name_DS_Store
    \/ n = Name_Thumbs
    \/ StartsWith(n, <<".","_">>)
    \/ StartsWith(n, <<"~","$">>)
    \/ EndsWith(n, <<".","b","o","x","n","o","t","e">>)
    \/ EndsWith(n, <<".","t","m","p">>)

NoJunk(records) ==
    \A i \in 1..Len(records) : ~JunkName(Basename(records[i].path))

\* C8: a listed path whose basename matches an exclusion pattern gives no
\* record: no such path is in the records of either side, in either index,
\* in the missing list or in the mismatch list.
C8_JunkExcluded ==
    /\ NoJunk(src_entries) /\ NoJunk(dst_entries)
    /\ NoJunk(src_idx) /\ NoJunk(dst_idx)
    /\ NoJunk(missing_on_dst) /\ NoJunk(mismatches)

\* A finished run whose source listed a junk file in a directory beside a
\* file that was kept, and whose destination listed a junk file too.
C8_Witness ==
    /\ pc = "done"
    /\ Len(src_idx) = 1
    /\ \E i \in 1..Len(src_remote) :
          /\ Len(src_remote[i]) = 3
          /\ Basename(src_remote[i][1]) = Name_Thumbs
          /\ src_remote[i][1] # Name_Thumbs
    /\ \E i \in 1..Len(dst_remote) : JunkName(Basename(dst_remote[i][1]))

\* C9: with or without an allow-list, the matched value of each group,
\* total_files - missing - mismatches, is the number of the group's source
\* records that compare() matched, and is not negative.
C9_GroupMatched ==
    Aggregated =>
        \A t \in DOMAIN per_top :
            /\ per_top[t].matched =
                  Cardinality({i \in 1..Len(src_idx) :
                      top_level_of(src_idx[i].path) = t /\ IsMatched(i)})
            /\ per_top[t].matched >= 0

\* Under an allow-list: a group with a matched file, while a missing file of
\* another top-level segment is left out of every tally.
C9_Witness ==
    /\ Aggregated
    /\ DIRS # <<>>
    /\ Len(missing_on_dst) >= 1
    /\ \E t \in DOMAIN per_top :
          per_top[t].matched = 1 /\ per_top[t].total_files = 1

RECURSIVE SumFn(_, _)
SumFn(f, S) ==
    IF S = {} THEN 0
    ELSE LET x == CHOOSE x \in S : TRUE IN f[x] + SumFn(f, S \ {x})

AllSynced == \A t \in DOMAIN per_top : per_top[t].all_synced

\* C10: in a completed run, status pass implies that every directory is
\* all_synced; without an allow-list the converse holds too, and the
\* directories' total_files, missing, mismatches and size_bytes add up to
\* the overall counts and the total byte size.
C10_StatusAndTotals ==
    pc = "done" =>
        /\ status = "pass" => AllSynced
        /\ DIRS = <<>> =>
            /\ AllSynced => status = "pass"
            /\ SumFn([t \in DOMAIN per_top |-> per_top[t].total_files],
                     DOMAIN per_top) = counts.total_src_files
            /\ SumFn([t \in DOMAIN per_top |-> per_top[t].missing],
                     DOMAIN per_top) = counts.missing_on_dst
            /\ SumFn([t \in DOMAIN per_top |-> per_top[t].mismatches],
                     DOMAIN per_top) = counts.mismatches
            /\ SumFn([t \in DOMAIN per_top |-> per_top[t].size_bytes],
                     DOMAIN per_top) = total_size_bytes

\* A failed run without an allow-list: one directory in sync, one not.
C10_Witness ==
    /\ pc = "done"
    /\ DIRS = <<>>
    /\ status = "fail"
    /\ \E t, u \in DOMAIN per_top :
          per_top[t].all_synced /\ ~per_top[u].all_synced
    /\ total_size_bytes > 0

\* The files of the source below top-level A that the destination lacks.
MissingUnderA ==
    {i \in 1..Len(src_remote) :
        /\ Len(src_remote[i]) = 3
        /\ top_level_of(src_remote[i][1]) = DirA
        /\ \A j \in 1..Len(dst_remote) :
              KeyOf(dst_remote[j][1]) # KeyOf(src_remote[i][1])}

\* C4: with the allow-list ["B"] and a source file under A that the
\* destination lacks, no group is A, no group's missing tally counts that
\* file, and total_src_files still counts the files under A.
C4_AllowListScenario ==
    (pc = "done" /\ DIRS = << DirB >> /\ MissingUnderA # {}) =>
        /\ DirA \notin DOMAIN per_top
        /\ \A t \in DOMAIN per_top :
              per_top[t].missing =
                  Cardinality({j \in 1..Len(missing_on_dst) :
                      top_level_of(missing_on_dst[j].path) = t})
        /\ counts.total_src_files = Len(src_idx)
        /\ \A i \in MissingUnderA :
              \E k \in 1..Len(src_idx) : src_idx[k].key = KeyOf(src_remote[i][1])

\* C7: parse_rfc3339_modtime() returns the epoch of the instant a
\* well-formed timestamp denotes: "Z" or an offset of either sign is
\* applied, the fraction is cut to microseconds, no offset means UTC.
C7_ParsesInstant ==
    src_entries # <<>> =>
        \A g \in WellFormed :
            src_remote[1][3] = Render(g) =>
                src_entries[1].modtime = Some(Instant(g))

=============================================================================
